---- MODULE Spec2Model ----
(***************************************************************************)
(* Model of the GridGen frontend validation service.                       *)
(*                                                                         *)
(*   frontend/src/services/ApiService.js  rule-based validateScenario,     *)
(*                                        _validateScenarioData and        *)
(*                                        getValidationResults             *)
(*   unnamed/part_000                     the second ApiService variant:   *)
(*                                        backend-backed validateScenario  *)
(*                                        and the Math.random() mock of    *)
(*                                        getValidationResults             *)
(*                                                                         *)
(*   frontend/src/pages/AboutPage.js     GeneratePage: handleSubmit, its    *)
(*                                        progress timer and the tabs        *)
(*   ApiService.generateScenario          the request it posts               *)
(*                                                                         *)
(* JavaScript values are tagged records [t |-> type, ...].  Per-unit       *)
(* voltages are integers in hundredths (0.95 is 95, 1.0 is 100); Math      *)
(* .random() draws are integers in tenths.  Strings are tuples of          *)
(* one-character strings so that String.prototype.includes is computed.    *)
(***************************************************************************)
EXTENDS Integers, Sequences, FiniteSets, TLC

\* the service: the arguments of the calls, the latest call with the
\* conditions it met, its completion and the backend requests it issued
VARIABLES scenarioId, scenario, call, outcome, backendCalls

\* GeneratePage: the React state, the mock-data context, the request posted
\* by generateScenario, the handleSubmit invocations (reqState[k] is the
\* position of the k-th one), the live setInterval timers (named by the
\* invocation that created them) and the step taken last
VARIABLES isGenerating, progress, activeTab, error, result, parameters,
          mockDataEnabled, requestData, reqState, timers, lastStep

serviceVars == <<scenarioId, scenario, call, outcome, backendCalls>>

pageVars == <<isGenerating, progress, activeTab, error, result, parameters,
              mockDataEnabled, requestData, reqState, timers, lastStep>>

vars == <<scenarioId, scenario, call, outcome, backendCalls,
          isGenerating, progress, activeTab, error, result, parameters,
          mockDataEnabled, requestData, reqState, timers, lastStep>>

-----------------------------------------------------------------------------
(* Bounds of the model *)

MaxBuses == 2
MaxDevices == 4

\* number of form submissions in a behaviour
MaxRequests == 2

-----------------------------------------------------------------------------
(* JavaScript values and operators used by the service *)

Undefined == [t |-> "undefined"]
Null == [t |-> "null"]
Str(s) == [t |-> "string", v |-> s]
Num(n) == [t |-> "number", v |-> n]

\* ToBoolean: undefined, null, 0 and '' are falsy, everything else truthy
Truthy(x) ==
  CASE x.t = "undefined" -> FALSE
    [] x.t = "null" -> FALSE
    [] x.t = "number" -> x.v # 0
    [] x.t = "string" -> x.v # <<>>
    [] OTHER -> TRUE

\* a || b
Or(a, b) == IF Truthy(a) THEN a ELSE b

\* o?.vm
OptionalChainVm(o) == IF o.t \in {"undefined", "null"} THEN Undefined ELSE o.vm

\* String.prototype.includes on tuples of characters
includes(s, sub) ==
  \E i \in 0..(Len(s) - Len(sub)) : SubSeq(s, i + 1, i + Len(sub)) = sub

\* Array.prototype.filter
RECURSIVE filter(_, _)
filter(arr, type) ==
  IF arr = <<>> THEN <<>>
  ELSE IF Head(arr).device_type = type
       THEN <<Head(arr)>> \o filter(Tail(arr), type)
       ELSE filter(Tail(arr), type)

SeqsUpTo(S, n) == UNION {[1..k -> S] : k \in 0..n}

-----------------------------------------------------------------------------
(* String literals of the source *)

s_invalid == <<"i","n","v","a","l","i","d">>
s_stress == <<"s","t","r","e","s","s">>
s_overload == <<"o","v","e","r","l","o","a","d">>

\* scenario ids used as inputs
id_demo_001 == <<"d","e","m","o","-","0","0","1">>
id_stress_test_7 == <<"s","t","r","e","s","s","-","t","e","s","t","-","7">>
id_my_invalid_case == <<"m","y","-","i","n","v","a","l","i","d","-","c","a","s","e">>
id_grid_overload == <<"g","r","i","d","-","o","v","e","r","l","o","a","d">>

-----------------------------------------------------------------------------
(* Limits of criterion 4, in hundredths of a per-unit *)

LowLimit == 95
HighLimit == 105
DefaultVm == 100

-----------------------------------------------------------------------------
(* Input domains *)

ScenarioIdArgs == {id_demo_001, id_stress_test_7}

\* scenario.scenario_id: absent, a string, or (malformed) a number
ScenarioIdFields == {Undefined, Str(id_demo_001), Str(id_my_invalid_case), Num(5)}

\* scenario.id
IdFields == {Undefined, Str(id_grid_overload)}

\* { initial_status: { vm: ivm }, vm: vm } and { vm: vm }
Bus(ivm, vm) == [initial_status |-> [t |-> "object", vm |-> ivm], vm |-> vm]
BusNoStatus(vm) == [initial_status |-> Undefined, vm |-> vm]

\* the buses of the inputs: on the lower limit, above the upper limit, at
\* zero, with a zero or a low initial_status.vm beside a vm that is in range
\* (on the upper limit, nominal), and with no voltage field at all
BusValues ==
  {BusNoStatus(Num(95)), BusNoStatus(Num(106)), BusNoStatus(Num(0)),
   Bus(Num(0), Num(105)), Bus(Num(94), Num(100)), BusNoStatus(Undefined)}

\* network.bus: absent, an array of buses, or (malformed) a non-iterable object
BusCollections ==
  {Undefined, [t |-> "object"]}
    \cup {[t |-> "array", v |-> b] : b \in SeqsUpTo(BusValues, MaxBuses)}

\* p producers followed by c consumers
DeviceList(p, c) ==
  [i \in 1..(p + c) |-> [device_type |-> IF i <= p THEN "producer" ELSE "consumer"]]

\* network.simple_dispatchable_device: absent or an array of devices; the
\* code only filters and counts, so one order per pair of counts is enumerated
DeviceCollections ==
  {Undefined}
    \cup {[t |-> "array", v |-> DeviceList(pc[1], pc[2])] :
            pc \in {x \in (0..MaxDevices) \X (0..MaxDevices) : x[1] + x[2] <= MaxDevices}}

\* the documented template: 4 buses at nominal voltage, 2 generators, 2 loads
validScenarioCustom ==
  [t |-> "object",
   bus |-> [t |-> "array", v |-> [i \in 1..4 |-> BusNoStatus(Num(100))]],
   simple_dispatchable_device |-> [t |-> "array", v |-> DeviceList(2, 2)]]

Networks ==
  {Undefined, validScenarioCustom}
    \cup {[t |-> "object", bus |-> b, simple_dispatchable_device |-> d] :
            b \in BusCollections, d \in DeviceCollections}

\* an identifier that includes() is called on: a string or the '' default
\* (identifier = scenario.scenario_id || scenario.id || '')
idIsString(sc) == sc.scenario_id.t # "number"

\* scenario.id is read only behind a falsy scenario_id, and a numeric
\* identifier raises before the buses are read: the flagged scenario_id is
\* not paired with an id, and the numeric one goes with two networks only
Scenarios ==
  {sc \in [t : {"object"}, scenario_id : ScenarioIdFields, id : IdFields,
            network : Networks] :
     /\ sc.scenario_id = Str(id_my_invalid_case) => sc.id = Undefined
     /\ ~idIsString(sc) => sc.network \in {Undefined, validScenarioCustom}}

\* the scenarios on which the two service variants are run side by side:
\* no network, or at most one bus with one producer and one consumer
ServiceNetworks ==
  {Undefined}
    \cup {[t |-> "object", bus |-> b, simple_dispatchable_device |-> d] :
            b \in {[t |-> "object"]}
                   \cup {[t |-> "array", v |-> l] : l \in SeqsUpTo(BusValues, 1)},
            d \in {Undefined, [t |-> "array", v |-> DeviceList(1, 1)]}}

ServiceScenarios ==
  [t : {"object"}, scenario_id : ScenarioIdFields, id : IdFields,
   network : ServiceNetworks]

\* Math.random() draws, in tenths
RandomValues == {3, 4}

-----------------------------------------------------------------------------
(* Completion of a call: a returned value or a thrown exception *)

Return(v) == [kind |-> "return", value |-> v]
Throw == [kind |-> "throw"]
NoOutcome == [kind |-> "none"]

-----------------------------------------------------------------------------
(* ApiService.js: the rule-based check *)

\* const voltage = bus.initial_status?.vm || bus.vm || 1.0
voltage(bus) == Or(Or(OptionalChainVm(bus.initial_status), bus.vm), Num(DefaultVm))

\* the range test with the limits excluded
outOfRange_exclusive(v) == v.v <= LowLimit \/ v.v >= HighLimit

\* voltage < 0.95 || voltage > 1.05
outOfRange(v) == v.v < LowLimit \/ v.v > HighLimit

\* for (const bus of buses) { ...; break }: index of the bus at which the
\* loop breaks, counted from position i; 0 when the loop runs to the end
RECURSIVE scanBuses(_, _)
scanBuses(buses, i) ==
  IF i > Len(buses) THEN 0
  ELSE IF outOfRange(voltage(buses[i])) THEN i
       ELSE scanBuses(buses, i + 1)

\* the generator-presence test dropped
noGenerator_never(g) == g < 0

\* generators.length < 1
noGenerator(g) == g < 1

\* the ratio test with >= in place of >
ratioExceeded_inclusive(l, g) == l >= 2 * g

\* loads.length / generators.length > 2; the lengths are small integers, for
\* which the floating-point quotient exceeds 2 exactly when l > 2 * g
ratioExceeded(l, g) == l > 2 * g

\* id.includes('invalid') || id.includes('stress') || id.includes('overload')
flaggedId(id) ==
  includes(id, s_invalid) \/ includes(id, s_stress) \/ includes(id, s_overload)

_validateScenarioData(s) ==
  LET network == Or(s.network, [t |-> "object", bus |-> Undefined,
                                simple_dispatchable_device |-> Undefined])
      buses == Or(network.bus, [t |-> "array", v |-> <<>>])
      devices == Or(network.simple_dispatchable_device, [t |-> "array", v |-> <<>>])
      generators == filter(devices.v, "producer")
      loads == filter(devices.v, "consumer")
      isValid0 == TRUE
      isValid1 == IF noGenerator(Len(generators)) THEN FALSE ELSE isValid0
      isValid2 == IF Len(generators) > 0 /\ ratioExceeded(Len(loads), Len(generators))
                  THEN FALSE ELSE isValid1
      id == Or(Or(s.scenario_id, s.id), Str(<<>>))
  IN  IF id.t # "string" THEN Throw              \* id.includes is not a function
      ELSE LET isValid3 == IF flaggedId(id.v) THEN FALSE ELSE isValid2
           IN  IF buses.t # "array" THEN Throw   \* buses is not iterable
               ELSE LET isValid4 == IF scanBuses(buses.v, 1) # 0 THEN FALSE
                                    ELSE isValid3
                    IN  Return(isValid4)

\* the result literal with the top-level flag left at true
simulatedResult_flagStale(sid, isValid) ==
  [scenario_id |-> sid,
   is_valid |-> isValid,
   physics_validation |->
     [is_valid |-> isValid,
      voltage_violations |->
        IF isValid THEN <<>>
        ELSE <<[bus_id |-> "Bus1", type |-> "Low voltage", value |-> 92, limit |-> 95]>>,
      line_violations |->
        IF isValid THEN <<>>
        ELSE <<[line_id |-> "Line1-2", type |-> "Flow exceeds limit",
                value |-> 320, limit |-> 300]>>],
   opendss_validation |->
     [success |-> isValid, voltage_violations |-> <<>>, thermal_violations |-> <<>>],
   opendss_success |-> TRUE]

\* the result literal of the rule-based paths (lines 110-134, repeated at
\* 144-168 and 281-305); line values are in MW
simulatedResult(sid, isValid) ==
  [scenario_id |-> sid,
   is_valid |-> isValid,
   physics_validation |->
     [is_valid |-> isValid,
      voltage_violations |->
        IF isValid THEN <<>>
        ELSE <<[bus_id |-> "Bus1", type |-> "Low voltage", value |-> 92, limit |-> 95]>>,
      line_violations |->
        IF isValid THEN <<>>
        ELSE <<[line_id |-> "Line1-2", type |-> "Flow exceeds limit",
                value |-> 320, limit |-> 300]>>],
   opendss_validation |->
     [success |-> isValid, voltage_violations |-> <<>>, thermal_violations |-> <<>>],
   opendss_success |-> isValid]

\* the catch block answering with the literal of an invalid scenario
errorResult_asInvalid(sid) == simulatedResult(sid, FALSE)

\* the result literal of the catch block of validateScenario
errorResult(sid) ==
  [scenario_id |-> sid,
   is_valid |-> FALSE,
   physics_validation |->
     [is_valid |-> FALSE,
      voltage_violations |->
        <<[bus_id |-> "Error", type |-> "Error validating", value |-> 0, limit |-> 0]>>,
      line_violations |-> <<>>],
   opendss_validation |->
     [success |-> FALSE, voltage_violations |-> <<>>, thermal_violations |-> <<>>],
   opendss_success |-> FALSE]

\* getScenarioById: response.data of GET /scenarios/{id}, or the rethrown error
getScenarioById(fetchOk, stored) == IF fetchOk THEN Return(stored) ELSE Throw

\* validateScenario fetching the scenario whether or not scenarioData is given
validateScenario_alwaysFetch(sid, scenarioData, fetched) ==
  IF fetched.kind = "throw" THEN Return(errorResult(sid))
  ELSE LET r == _validateScenarioData(IF Truthy(scenarioData) THEN scenarioData
                                                               ELSE fetched.value)
       IN  IF r.kind = "throw" THEN Return(errorResult(sid))
           ELSE Return(simulatedResult(sid, r.value))

\* validateScenario(scenarioId, scenarioData = null); fetched is the
\* completion of getScenarioById(scenarioId)
validateScenario(sid, scenarioData, fetched) ==
  IF Truthy(scenarioData)
  THEN LET r == _validateScenarioData(scenarioData)
       IN  IF r.kind = "throw" THEN Return(errorResult(sid))
           ELSE Return(simulatedResult(sid, r.value))
  ELSE IF fetched.kind = "throw" THEN Return(errorResult(sid))
       ELSE LET r == _validateScenarioData(fetched.value)
            IN  IF r.kind = "throw" THEN Return(errorResult(sid))
                ELSE Return(simulatedResult(sid, r.value))

\* the backend requests validateScenario issues: getScenarioById is awaited
\* only past the if (scenarioData) branch
validateScenarioCalls(scenarioData) ==
  IF Truthy(scenarioData) THEN {} ELSE {"getScenarioById"}

\* the backend requests getValidationResults issues: the GET of the
\* validation endpoint and, in its catch block, getScenarioById
getValidationResultsCalls(endpoint) ==
  IF endpoint.kind = "return" THEN {"GET validation"}
  ELSE {"GET validation", "getScenarioById"}

\* getValidationResults(scenarioId); endpoint is the completion of
\* GET /scenarios/{id}/validation, fetched that of getScenarioById
getValidationResults(sid, endpoint, fetched) ==
  IF endpoint.kind = "return" THEN Return(endpoint.value)
  ELSE LET sc == IF fetched.kind = "throw" THEN Null ELSE fetched.value
           isValid0 == TRUE
           isValid1 == IF flaggedId(sid) THEN FALSE ELSE isValid0
       IN  IF Truthy(sc)
           THEN LET r == _validateScenarioData(sc)
                IN  IF r.kind = "throw" THEN Throw   \* raised inside the catch block
                    ELSE Return(simulatedResult(sid, r.value))
           ELSE Return(simulatedResult(sid, isValid1))

-----------------------------------------------------------------------------
(* unnamed/part_000: the backend-backed variant *)

\* validateScenario(scenarioId): fetch, POST /scenarios/validate, rethrow
validateScenario_part000(sid, fetched, posted) ==
  IF fetched.kind = "throw" THEN Throw
  ELSE IF posted.kind = "throw" THEN Throw
       ELSE Return(posted.value)

\* the backend requests of the two: the POST follows a successful fetch
validateScenarioCalls_part000(fetched) ==
  IF fetched.kind = "throw" THEN {"getScenarioById"}
  ELSE {"getScenarioById", "POST validate"}

getValidationResultsCalls_part000 == {"GET validation"}

\* getValidationResults(scenarioId) with its mocked fallback; r1 and r2 are
\* the two Math.random() draws
getValidationResults_part000(sid, endpoint, r1, r2) ==
  IF endpoint.kind = "return" THEN Return(endpoint.value)
  ELSE Return(
    [scenario_id |-> sid,
     is_valid |-> r1 > 3,
     physics_validation |->
       [is_valid |-> r2 > 3, voltage_violations |-> <<>>, line_violations |-> <<>>],
     opendss_validation |->
       [success |-> TRUE, voltage_violations |-> <<>>, thermal_violations |-> <<>>],
     opendss_success |-> TRUE])

-----------------------------------------------------------------------------
(* The backend, which is not part of the frontend sources: a validation     *)
(* result aggregated as the specification requires (section 4.4)            *)

aggregate(sid, physics, circuit) ==
  [scenario_id |-> sid,
   is_valid |-> physics /\ circuit,
   physics_validation |->
     [is_valid |-> physics, voltage_violations |-> <<>>, line_violations |-> <<>>],
   opendss_validation |->
     [success |-> circuit, voltage_violations |-> <<>>, thermal_violations |-> <<>>],
   opendss_success |-> circuit]

\* completion of a backend validation request
backendValidation(ok, sid, physics, circuit) ==
  IF ok THEN Return(aggregate(sid, physics, circuit)) ELSE Throw

-----------------------------------------------------------------------------
(* ApiService.generateScenario and GeneratePage *)

True == [t |-> "boolean", v |-> TRUE]
False == [t |-> "boolean", v |-> FALSE]

\* 'Failed to generate scenario'
s_failed == <<"F","a","i","l","e","d"," ","t","o"," ","g","e","n","e","r","a","t","e",
             " ","s","c","e","n","a","r","i","o">>

\* messages of the generator: of a rejected request, of a response.error
\* field, and of the TypeError raised by reading .error of a null response
s_network_error == <<"N","e","t","w","o","r","k"," ","E","r","r","o","r">>
s_model_failed == <<"m","o","d","e","l"," ","f","a","i","l","e","d">>
s_type_error == <<"T","y","p","e","E","r","r","o","r">>

\* values of the similarity_threshold range input (min 0.5, max 0.9), as the
\* strings of event.target.value
s_0_7 == <<"0",".","7">>
s_0_9 == <<"0",".","9">>
ThresholdValues == {Str(s_0_7), Str(s_0_9)}

\* value of a decimal digit
Digit(c) ==
  CASE c = "0" -> 0 [] c = "1" -> 1 [] c = "2" -> 2 [] c = "3" -> 3 [] c = "4" -> 4
    [] c = "5" -> 5 [] c = "6" -> 6 [] c = "7" -> 7 [] c = "8" -> 8 [] c = "9" -> 9

\* Number(x) of a number or of a string 'd', 'd.d' or 'd.dd', in hundredths
Number(x) ==
  IF x.t = "number" THEN x
  ELSE Num(Digit(x.v[1]) * 100
           + (IF Len(x.v) >= 3 THEN Digit(x.v[3]) * 10 ELSE 0)
           + (IF Len(x.v) >= 4 THEN Digit(x.v[4]) ELSE 0))

\* the fallback written in generateScenario, 0.7
DefaultThreshold == 70

\* useState initial value of parameters (the fields the request depends on)
initialParameters == [include_context |-> False, similarity_threshold |-> Num(50)]

\* const payload = { ...parameters, similarity_threshold: Number(...) }
payload(params) ==
  [include_context |-> params.include_context,
   similarity_threshold |-> Number(params.similarity_threshold)]

\* const requestData = { parameters, include_context: ..., similarity_threshold: ... }
buildRequest(params) ==
  [t |-> "object",
   parameters |-> params,
   include_context |->
     IF params.include_context.t # "undefined" THEN params.include_context ELSE True,
   similarity_threshold |-> Or(params.similarity_threshold, Num(DefaultThreshold))]

\* parameters a caller passes to ApiService.generateScenario directly
ApiParameters ==
  [include_context : {True, False, Undefined},
   similarity_threshold : {Num(10 * i) : i \in 0..10} \cup {Undefined}]

\* what the generator call settles with: response.data of the POST (a
\* scenario, an object with an error field, or nothing) ...
Responses ==
  {[t |-> "object", id |-> Str(id_demo_001), error |-> Undefined],
   [t |-> "object", id |-> Undefined, error |-> Str(s_model_failed)],
   Null}

\* the mock generator substitutes a scenario for the real result
generateMockScenario(params) ==
  [t |-> "object", id |-> Str(id_demo_001), error |-> Undefined]

\* ... or the error rethrown by generateScenario, with or without a message
Rejections == {[message |-> Str(s_network_error)], [message |-> Undefined]}

\* the updater with the stop test read as prev > 90
progressUpdater_over(prev) == IF prev > 90 THEN prev ELSE prev + 10

\* the updater that restarts at the top
progressUpdater_wrap(prev) == IF prev >= 90 THEN 10 ELSE prev + 10

\* (prev) => { if (prev >= 90) { clearInterval(...); return prev; } return prev + 10; }
progressUpdater(prev) == IF prev >= 90 THEN prev ELSE prev + 10

\* if (prev >= 90) clearInterval(progressInterval)
timerStops(prev) == prev >= 90

\* the step taken last: its kind and the handleSubmit invocation it belongs to
Step(kind, req) == [kind |-> kind, req |-> req]

\* ... and, for a step that settles the generator call, the error message the
\* generator gave (undefined if it gave none)
Settle(kind, req, message) == [kind |-> kind, req |-> req, message |-> message]

\* response.error of a settled call, undefined for a null response
errorOf(response) ==
  IF response.t = "object" THEN response.error ELSE Undefined

\* the catch block without the fallback text
caughtMessage_noFallback(err) == err.message

\* err.message || 'Failed to generate scenario'
caughtMessage(err) == Or(err.message, Str(s_failed))

\* the progress view: Validating is shown completed at progress >= 70,
\* Finalizing at progress >= 90
ValidatingAt == 70
FinalizingAt == 90
shownValidating == progress >= ValidatingAt
shownFinalizing == progress >= FinalizingAt

\* const [...] = useState(...)
PageInit ==
  /\ isGenerating = FALSE
  /\ progress = 0
  /\ activeTab = "parameters"
  /\ error = Null
  /\ result = Null
  /\ parameters = initialParameters
  /\ requestData = Null
  /\ reqState = <<>>
  /\ timers = {}
  /\ lastStep = Step("none", 0)

-----------------------------------------------------------------------------
(* State machine: a caller issues validation calls for one scenario *)

NoCall == [op |-> "none", fetchOk |-> FALSE, endpointOk |-> FALSE,
           physics |-> FALSE, circuit |-> FALSE]

Call(op, fetchOk, endpointOk, physics, circuit) ==
  [op |-> op, fetchOk |-> fetchOk, endpointOk |-> endpointOk,
   physics |-> physics, circuit |-> circuit]

\* the call completes; call and outcome hold the latest call and its completion
Complete(c, o, requests) ==
  /\ call' = c
  /\ outcome' = o
  /\ backendCalls' = requests
  /\ UNCHANGED <<scenarioId, scenario>>
  /\ UNCHANGED pageVars

Init ==
  /\ scenarioId \in ScenarioIdArgs
  /\ scenario \in Scenarios
  /\ call = NoCall
  /\ outcome = NoOutcome
  /\ backendCalls = {}
  /\ mockDataEnabled = FALSE
  /\ PageInit

\* ApiService.validateScenario(scenarioId, scenarioData)
ValidateScenarioWithData ==
  \E fetchOk \in BOOLEAN :
    Complete(Call("validateScenario(id, data)", fetchOk, FALSE, FALSE, FALSE),
             validateScenario(scenarioId, scenario, getScenarioById(fetchOk, scenario)),
             validateScenarioCalls(scenario))

\* ApiService.validateScenario(scenarioId)
ValidateScenarioById ==
  \E fetchOk \in BOOLEAN :
    Complete(Call("validateScenario(id)", fetchOk, FALSE, FALSE, FALSE),
             validateScenario(scenarioId, Null, getScenarioById(fetchOk, scenario)),
             validateScenarioCalls(Null))

\* ApiService.getValidationResults(scenarioId), endpoint available
GetValidationResultsBackend ==
  \E physics \in BOOLEAN, circuit \in BOOLEAN :
    Complete(Call("getValidationResults", FALSE, TRUE, physics, circuit),
             getValidationResults(scenarioId,
                                  backendValidation(TRUE, scenarioId, physics, circuit),
                                  Throw),
             getValidationResultsCalls(backendValidation(TRUE, scenarioId, physics, circuit)))

\* ApiService.getValidationResults(scenarioId), endpoint failing
GetValidationResultsFallback ==
  \E fetchOk \in BOOLEAN :
    Complete(Call("getValidationResults", fetchOk, FALSE, FALSE, FALSE),
             getValidationResults(scenarioId,
                                  backendValidation(FALSE, scenarioId, FALSE, FALSE),
                                  getScenarioById(fetchOk, scenario)),
             getValidationResultsCalls(backendValidation(FALSE, scenarioId, FALSE, FALSE)))

\* part_000 validateScenario(scenarioId)
ValidateScenarioPart000 ==
  \E fetchOk \in BOOLEAN, postOk \in BOOLEAN, physics \in BOOLEAN, circuit \in BOOLEAN :
    /\ ~postOk => (~physics /\ ~circuit)
    /\ ~fetchOk => ~postOk
    /\ Complete(Call("part_000 validateScenario", fetchOk, postOk, physics, circuit),
                validateScenario_part000(scenarioId,
                                         getScenarioById(fetchOk, scenario),
                                         backendValidation(postOk, scenarioId, physics, circuit)),
                validateScenarioCalls_part000(getScenarioById(fetchOk, scenario)))

\* part_000 getValidationResults(scenarioId)
GetValidationResultsPart000 ==
  \E endpointOk \in BOOLEAN, physics \in BOOLEAN, circuit \in BOOLEAN,
     r1 \in RandomValues, r2 \in RandomValues :
    /\ ~endpointOk => (~physics /\ ~circuit)
    /\ Complete(Call("part_000 getValidationResults", FALSE, endpointOk, physics, circuit),
                getValidationResults_part000(scenarioId,
                                             backendValidation(endpointOk, scenarioId, physics, circuit),
                                             r1, r2),
                getValidationResultsCalls_part000)

\* ApiService.generateScenario(parameters): the request is built and posted,
\* response.data is returned or the error of the POST is rethrown
GenerateScenario ==
  \E params \in ApiParameters, settled \in {Return(r) : r \in Responses} \cup {Throw} :
    /\ call' = Call("generateScenario", FALSE, settled # Throw, FALSE, FALSE)
    /\ requestData' = buildRequest(params)
    /\ outcome' = settled
    /\ backendCalls' = {"POST generate"}
    /\ UNCHANGED <<scenarioId, scenario>>
    /\ UNCHANGED <<isGenerating, progress, activeTab, error, result, parameters,
                   mockDataEnabled, reqState, timers, lastStep>>

\* ApiService.js, the rule-based service
Next ==
  \/ ValidateScenarioWithData
  \/ ValidateScenarioById
  \/ GetValidationResultsBackend
  \/ GetValidationResultsFallback

Spec == Init /\ [][Next]_vars

-----------------------------------------------------------------------------
(* The input scenario as the claims describe it, independently of how the   *)
(* code reads it                                                            *)

devicesOf(s) ==
  IF s.network.t = "object" /\ s.network.simple_dispatchable_device.t = "array"
  THEN s.network.simple_dispatchable_device.v ELSE <<>>

busesOf(s) ==
  IF s.network.t = "object" /\ s.network.bus.t = "array"
  THEN s.network.bus.v ELSE <<>>

numProducers(s) ==
  Cardinality({i \in DOMAIN devicesOf(s) : devicesOf(s)[i].device_type = "producer"})

numConsumers(s) ==
  Cardinality({i \in DOMAIN devicesOf(s) : devicesOf(s)[i].device_type = "consumer"})

\* initial_status.vm if present, else vm if present, else 1.0
effectiveVoltage(bus) ==
  IF bus.initial_status.t = "object" /\ bus.initial_status.vm.t = "number"
  THEN bus.initial_status.vm.v
  ELSE IF bus.vm.t = "number" THEN bus.vm.v ELSE 100

inRange(x) == 95 <= x /\ x <= 105

allBusesInRange(s) ==
  \A i \in DOMAIN busesOf(s) : inRange(effectiveVoltage(busesOf(s)[i]))

containsFlag(str) ==
  \E w \in {s_invalid, s_stress, s_overload} :
    \E i \in 1..Len(str) : \E j \in i..Len(str) : SubSeq(str, i, j) = w

fieldFlagged(f) == f.t = "string" /\ containsFlag(f.v)

\* the data has the types of the Scenario data model: a string (or absent)
\* scenario_id and a list (or absent) bus collection
wellTyped(s) ==
  /\ s.scenario_id.t \in {"undefined", "string"}
  /\ s.network.t = "object" => s.network.bus.t \in {"undefined", "array"}

\* the latest call was validateScenario / the getValidationResults fallback
isValidateScenario == call.op \in {"validateScenario(id, data)", "validateScenario(id)"}
isFallback == call.op = "getValidationResults" /\ ~call.endpointOk

\* the latest call ran the rule-based check on the scenario
checkedByValidateScenario ==
  \/ call.op = "validateScenario(id, data)"
  \/ call.op = "validateScenario(id)" /\ call.fetchOk
checkedByFallback == isFallback /\ call.fetchOk

\* the latest call built its result in the frontend, not in the backend
locallyProduced ==
  \/ isValidateScenario
  \/ isFallback
  \/ call.op = "part_000 getValidationResults" /\ ~call.endpointOk

returned == outcome.kind = "return"

-----------------------------------------------------------------------------
(* Claims *)

\* C1: in every validation result built by validateScenario or by
\* getValidationResults (either variant), is_valid is true if and only if
\* physics_validation.is_valid and opendss_validation.success are both true.
C1_VerdictIsConjunction ==
  (locallyProduced /\ returned) =>
    (outcome.value.is_valid <=>
       (outcome.value.physics_validation.is_valid
          /\ outcome.value.opendss_validation.success))

\* C2: when the scenarioId argument, or the scenario_id of the scenario that
\* was checked, contains 'invalid', 'stress' or 'overload', the result of
\* validateScenario and of the getValidationResults fallback has
\* is_valid = false.
C2_FlaggedIdIsInvalid ==
  ((isValidateScenario \/ isFallback) /\ returned
     /\ \/ containsFlag(scenarioId)
        \/ /\ checkedByValidateScenario \/ checkedByFallback
           /\ fieldFlagged(scenario.scenario_id)) =>
    outcome.value.is_valid = FALSE

\* C3: for a scenario without any producer device (absent network and absent
\* device list included), _validateScenarioData never returns true, returns
\* false whenever the data is well typed, and validateScenario returns a
\* result with physics_validation.is_valid = false.
C3_NoProducerIsInvalid ==
  numProducers(scenario) = 0 =>
    /\ _validateScenarioData(scenario) # Return(TRUE)
    /\ wellTyped(scenario) => _validateScenarioData(scenario) = Return(FALSE)
    /\ isValidateScenario =>
         (returned /\ outcome.value.physics_validation.is_valid = FALSE)

C3_Witness ==
  /\ call.op = "validateScenario(id, data)"
  /\ numProducers(scenario) = 0
  /\ numConsumers(scenario) = 3
  /\ scenario.scenario_id = Str(id_demo_001)
  /\ allBusesInRange(scenario)
  /\ returned
  /\ outcome.value.physics_validation.is_valid = FALSE

\* C4: with at least one producer and more than two consumers per producer,
\* physics_validation.is_valid is false; with exactly two consumers per
\* producer and nothing else wrong, it is true.
C4_RatioAboveTwoIsInvalid ==
  (checkedByValidateScenario /\ numProducers(scenario) >= 1) =>
    /\ numConsumers(scenario) > 2 * numProducers(scenario) =>
         (returned /\ outcome.value.physics_validation.is_valid = FALSE)
    /\ (/\ numConsumers(scenario) = 2 * numProducers(scenario)
        /\ wellTyped(scenario)
        /\ ~fieldFlagged(scenario.scenario_id)
        /\ ~fieldFlagged(scenario.id)
        /\ allBusesInRange(scenario)) =>
         (returned /\ outcome.value.physics_validation.is_valid = TRUE)

C4_Witness ==
  /\ call.op = "validateScenario(id, data)"
  /\ numProducers(scenario) = 1
  /\ numConsumers(scenario) = 3
  /\ scenario.scenario_id = Str(id_demo_001)
  /\ Len(busesOf(scenario)) = 2
  /\ allBusesInRange(scenario)
  /\ returned
  /\ outcome.value.physics_validation.is_valid = FALSE

\* C5: when some bus has an effective voltage (initial_status.vm if present,
\* else vm if present, else 1.0) outside [0.95, 1.05], the result of the
\* rule-based check has physics_validation.is_valid = false.
C5_OutOfRangeBusIsInvalid ==
  ((checkedByValidateScenario \/ checkedByFallback) /\ returned
     /\ ~allBusesInRange(scenario)) =>
    outcome.value.physics_validation.is_valid = FALSE

C7_NeverThrows == call.op # "none" => returned

\* C8: when validateScenario cannot fetch the scenario or the check raises,
\* the result has is_valid = false, opendss_validation.success = false, both
\* validation blocks, and exactly one violation entry in the whole result,
\* with bus_id 'Error', value 0 and limit 0.
validationFailed ==
  \/ call.op = "validateScenario(id)" /\ ~call.fetchOk
  \/ checkedByValidateScenario /\ _validateScenarioData(scenario) = Throw

numViolations(r) ==
  Len(r.physics_validation.voltage_violations)
    + Len(r.physics_validation.line_violations)
    + Len(r.opendss_validation.voltage_violations)
    + Len(r.opendss_validation.thermal_violations)

C8_ErrorResult ==
  validationFailed =>
    /\ returned
    /\ {"physics_validation", "opendss_validation"} \subseteq DOMAIN outcome.value
    /\ outcome.value.is_valid = FALSE
    /\ outcome.value.opendss_validation.success = FALSE
    /\ numViolations(outcome.value) = 1
    /\ Len(outcome.value.physics_validation.voltage_violations) = 1
    /\ outcome.value.physics_validation.voltage_violations[1].bus_id = "Error"
    /\ outcome.value.physics_validation.voltage_violations[1].value = 0
    /\ outcome.value.physics_validation.voltage_violations[1].limit = 0

\* the check raised on a scenario whose bus collection is not a list
C8_Witness ==
  /\ call.op = "validateScenario(id, data)"
  /\ scenario.network.t = "object"
  /\ scenario.network.bus = [t |-> "object"]
  /\ scenario.scenario_id = Str(id_demo_001)
  /\ returned
  /\ outcome.value.physics_validation.voltage_violations[1].bus_id = "Error"

\* C11: when the bus scan stops at an out-of-range bus, the result carries a
\* voltage_violations entry with that bus's observed voltage as value and
\* with limit 0.95 when that voltage is below the range, 1.05 when above.
C11_ViolationDescribesBus ==
  (/\ checkedByValidateScenario
   /\ returned
   /\ _validateScenarioData(scenario) # Throw
   /\ scanBuses(busesOf(scenario), 1) # 0) =>
    LET bus == busesOf(scenario)[scanBuses(busesOf(scenario), 1)]
        entries == outcome.value.physics_validation.voltage_violations
    IN  /\ Len(entries) = 1
        /\ entries[1].value = voltage(bus).v
        /\ entries[1].limit = IF voltage(bus).v < 95 THEN 95 ELSE 105

\* C12: physics_validation.line_violations is empty in every result of
\* validateScenario and of the getValidationResults fallback.
C12_NoLineViolations ==
  ((isValidateScenario \/ isFallback) /\ returned) =>
    outcome.value.physics_validation.line_violations = <<>>

\* C13: physics_validation.voltage_violations is non-empty only if some bus
\* of the scenario has a voltage outside [0.95, 1.05].
C13_VoltageEntriesOnlyForBuses ==
  ((checkedByValidateScenario \/ checkedByFallback) /\ returned
     /\ outcome.value.physics_validation.voltage_violations # <<>>) =>
    ~allBusesInRange(scenario)

\* C16: validateScenario and getValidationResults return is_valid = true for
\* every scenario id and every scenario data.
C16_AlwaysValid ==
  ((isValidateScenario \/ isFallback) /\ returned) =>
    outcome.value.is_valid = TRUE

\* both ApiService variants, called for the same scenario
InitServices ==
  /\ scenarioId \in ScenarioIdArgs
  /\ scenario \in ServiceScenarios
  /\ call = NoCall
  /\ outcome = NoOutcome
  /\ backendCalls = {}
  /\ mockDataEnabled = FALSE
  /\ PageInit

NextServices ==
  \/ ValidateScenarioWithData
  \/ ValidateScenarioById
  \/ GetValidationResultsBackend
  \/ GetValidationResultsFallback
  \/ ValidateScenarioPart000
  \/ GetValidationResultsPart000

SpecServices == InitServices /\ [][NextServices]_vars

\* C9: in every result built in the frontend (either variant) the top-level
\* opendss_success equals opendss_validation.success, and when the circuit
\* block reports failure is_valid is false as well.
C9_SuccessFlagsInSync ==
  (locallyProduced /\ returned) =>
    /\ outcome.value.opendss_success = outcome.value.opendss_validation.success
    /\ outcome.value.opendss_validation.success = FALSE =>
         outcome.value.is_valid = FALSE

\* an invalid scenario: the circuit block reports failure
C9_Witness ==
  /\ call.op = "validateScenario(id, data)"
  /\ returned
  /\ outcome.value.opendss_validation.success = FALSE
  /\ outcome.value.opendss_success = FALSE
  /\ outcome.value.physics_validation.voltage_violations[1].bus_id = "Bus1"

\* C10: a call repeated for the same scenario with the same backend
\* responses completes with the same result as the call before it.
C10_Repeatable ==
  [][(call.op # "none" /\ call' = call) => outcome' = outcome]_vars

-----------------------------------------------------------------------------
(* GeneratePage: one action per handler, timer callback and continuation *)

\* the handleSubmit invocation that awaits the generator, 0 if none
pendingRequest ==
  IF \E k \in DOMAIN reqState : reqState[k] = "pending"
  THEN CHOOSE k \in DOMAIN reqState : reqState[k] = "pending"
  ELSE 0

\* handleSubmit after the generator call storing the response before its
\* error field is examined
afterResponse_storeFirst(k, response) ==
  /\ timers' = timers \ {k}
  /\ progress' = 100
  /\ isGenerating' = FALSE
  /\ IF response.t \in {"null", "undefined"}
     THEN /\ error' = caughtMessage([message |-> Str(s_type_error)])
          /\ UNCHANGED <<result, activeTab>>
     ELSE IF Truthy(response.error)
          THEN /\ error' = response.error
               /\ result' = response
               /\ UNCHANGED activeTab
          ELSE /\ result' = response
               /\ activeTab' = "result"
               /\ error' = Null

\* handleSubmit after the generator call with setIsGenerating(false) at the
\* end of the try block instead of in finally
afterResponse_noFinally(k, response) ==
  /\ timers' = timers \ {k}
  /\ progress' = 100
  /\ isGenerating' = (response.t \in {"null", "undefined"} /\ isGenerating)
  /\ IF response.t \in {"null", "undefined"}
     THEN /\ error' = caughtMessage([message |-> Str(s_type_error)])
          /\ UNCHANGED <<result, activeTab>>
     ELSE IF Truthy(response.error)
          THEN /\ error' = response.error
               /\ UNCHANGED <<result, activeTab>>
          ELSE /\ result' = response
               /\ activeTab' = "result"
               /\ error' = Null

\* the code of handleSubmit after the generator call returned response, for
\* invocation k: clearInterval, setProgress(100), then the error or the
\* result branch; reading .error of a null response raises into the catch
afterResponse(k, response) ==
  /\ timers' = timers \ {k}
  /\ progress' = 100
  /\ isGenerating' = FALSE
  /\ IF response.t \in {"null", "undefined"}
     THEN /\ error' = caughtMessage([message |-> Str(s_type_error)])
          /\ UNCHANGED <<result, activeTab>>
     ELSE IF Truthy(response.error)
          THEN /\ error' = response.error
               /\ UNCHANGED <<result, activeTab>>
          ELSE /\ result' = response
               /\ activeTab' = "result"
               /\ error' = Null

\* position of the invocation once response has been handled: the result is
\* stored, the error of the response is shown, or reading the response raised
settledState(response) ==
  IF response.t \in {"null", "undefined"} THEN "typeError"
  ELSE IF Truthy(response.error) THEN "errorResponse" ELSE "completed"

\* handleSubmit up to the await of ApiService.generateScenario(payload); the
\* form is on the parameters tab and its submit button is disabled while
\* isGenerating
Submit ==
  /\ ~isGenerating
  /\ activeTab = "parameters"
  /\ ~mockDataEnabled
  /\ Len(reqState) < MaxRequests
  /\ error' = Null
  /\ isGenerating' = TRUE
  /\ progress' = 10
  /\ activeTab' = "progress"
  /\ timers' = timers \cup {Len(reqState) + 1}
  /\ requestData' = buildRequest(payload(parameters))
  /\ reqState' = Append(reqState, "pending")
  /\ lastStep' = Step("submit", Len(reqState) + 1)
  /\ UNCHANGED <<result, parameters, mockDataEnabled>>
  /\ UNCHANGED serviceVars

\* handleSubmit with mockDataEnabled: generateMockScenario returns at once,
\* the whole handler runs in one task and the timer is cleared before it fires
SubmitMock ==
  /\ ~isGenerating
  /\ activeTab = "parameters"
  /\ mockDataEnabled
  /\ Len(reqState) < MaxRequests
  /\ \E response \in {generateMockScenario(payload(parameters))} :
       /\ afterResponse(Len(reqState) + 1, response)
       /\ reqState' = Append(reqState, settledState(response))
       /\ lastStep' = Settle("mock", Len(reqState) + 1, errorOf(response))
  /\ UNCHANGED <<parameters, mockDataEnabled, requestData>>
  /\ UNCHANGED serviceVars

\* the progress timer of invocation k fires
Tick ==
  \E k \in timers :
    /\ progress' = progressUpdater(progress)
    /\ timers' = IF timerStops(progress) THEN timers \ {k} ELSE timers
    /\ lastStep' = Step("timer", k)
    /\ UNCHANGED <<isGenerating, activeTab, error, result, parameters,
                   mockDataEnabled, requestData, reqState>>
    /\ UNCHANGED serviceVars

\* the generator call resolves: handleSubmit continues after the await
Resolve ==
  \E k \in DOMAIN reqState, response \in Responses :
    /\ reqState[k] = "pending"
    /\ afterResponse(k, response)
    /\ reqState' = [reqState EXCEPT ![k] = settledState(response)]
    /\ lastStep' = Settle("resolve", k, errorOf(response))
    /\ UNCHANGED <<parameters, mockDataEnabled, requestData>>
    /\ UNCHANGED serviceVars

\* the generator call rejects: catch and finally of handleSubmit
Reject ==
  \E k \in DOMAIN reqState, err \in Rejections :
    /\ reqState[k] = "pending"
    /\ error' = caughtMessage(err)
    /\ isGenerating' = FALSE
    /\ reqState' = [reqState EXCEPT ![k] = "failed"]
    /\ lastStep' = Settle("reject", k, err.message)
    /\ UNCHANGED <<progress, activeTab, result, parameters, mockDataEnabled,
                   requestData, timers>>
    /\ UNCHANGED serviceVars

\* Tabs onSelect and the buttons that call setActiveTab; the progress tab is
\* disabled while !isGenerating && progress === 0, the result tab while !result
SelectTab ==
  \E key \in {"parameters", "progress", "result"} :
    /\ key # activeTab
    /\ key = "progress" => (isGenerating \/ progress # 0)
    /\ key = "result" => Truthy(result)
    /\ activeTab' = key
    /\ lastStep' = Step("user", 0)
    /\ UNCHANGED <<isGenerating, progress, error, result, parameters,
                   mockDataEnabled, requestData, reqState, timers>>
    /\ UNCHANGED serviceVars

\* handleChange of the include_context checkbox and of the threshold range
\* input, which is disabled while !parameters.include_context
handleChange ==
  /\ \/ parameters' = [parameters EXCEPT !.include_context =
                          IF parameters.include_context = True THEN False ELSE True]
     \/ \E value \in ThresholdValues :
          /\ parameters.include_context = True
          /\ value # parameters.similarity_threshold
          /\ parameters' = [parameters EXCEPT !.similarity_threshold = value]
  /\ lastStep' = Step("user", 0)
  /\ UNCHANGED <<isGenerating, progress, activeTab, error, result,
                 mockDataEnabled, requestData, reqState, timers>>
  /\ UNCHANGED serviceVars

InitPage ==
  /\ scenarioId = id_demo_001
  /\ scenario = [t |-> "object", scenario_id |-> Str(id_demo_001), id |-> Undefined,
                 network |-> validScenarioCustom]
  /\ call = NoCall
  /\ outcome = NoOutcome
  /\ backendCalls = {}
  /\ mockDataEnabled \in BOOLEAN
  /\ PageInit

NextPage ==
  \/ Submit
  \/ SubmitMock
  \/ Tick
  \/ Resolve
  \/ Reject
  \/ SelectTab
  \/ handleChange

SpecPage == InitPage /\ [][NextPage]_vars

\* a caller of the service issues generation requests
NextGenerate == GenerateScenario

SpecGenerate == InitPage /\ [][NextGenerate]_vars

-----------------------------------------------------------------------------
(* Claims about generation requests *)

\* C14: within a generation request, from the start of handleSubmit until it
\* finishes, no step (timer callback or completion) lowers progress.
C14_ProgressNeverDecreases ==
  [][isGenerating => progress' >= progress]_vars

\* a timer callback has raised progress while the request is in flight
C14_Witness ==
  /\ isGenerating
  /\ lastStep.kind = "timer"
  /\ progress > 10

\* C15: the request built by generateScenario carries the caller's values:
\* for include_context in {true, false} and a numeric similarity_threshold
\* (0 included) both fields of requestData equal those of the parameters.
C15_RequestCarriesParameters ==
  (/\ call.op = "generateScenario"
   /\ requestData.parameters.include_context.t = "boolean"
   /\ requestData.parameters.similarity_threshold.t = "number") =>
    /\ requestData.include_context = requestData.parameters.include_context
    /\ requestData.similarity_threshold = requestData.parameters.similarity_threshold


\* the latest request, 0 before the first
latestRequest == Len(reqState)

\* C17: Validating and Finalizing are shown only after the generator has
\* returned a scenario: while the call of the latest request is pending, or
\* after it has faulted, progress is below both milestones.
C17_MilestonesOnlyAfterSuccess ==
  (/\ latestRequest # 0
   /\ reqState[latestRequest] \in {"pending", "failed", "errorResponse"}) =>
    /\ ~shownValidating
    /\ ~shownFinalizing

\* the step just taken settled the generator call with a fault: a rejection,
\* or a response that carries an error
faulted(step) ==
  \/ step.kind = "reject"
  \/ step.kind \in {"resolve", "mock"} /\ Truthy(step.message)

\* C18: when the generator call rejects or its response carries an error,
\* handleSubmit finishes with error set to the generator's message, or to
\* 'Failed to generate scenario' if it has none, with isGenerating false and
\* without switching the active tab to 'result'.
C18_FaultSurfaced ==
  [][faulted(lastStep') =>
       /\ error' = IF lastStep'.message.t = "string" /\ lastStep'.message.v # <<>>
                   THEN lastStep'.message
                   ELSE Str(s_failed)
       /\ ~isGenerating'
       /\ activeTab' = "result" => activeTab = "result"]_vars

\* a rejection without a message has just been caught
C18_Witness ==
  /\ lastStep.kind = "reject"
  /\ lastStep.message = Undefined
  /\ error = Str(s_failed)
  /\ ~isGenerating

\* C19: a failed request is terminal: after handleSubmit has caught the
\* generator's exception, that request's timer no longer fires.
C19_FailedIsTerminal ==
  lastStep.kind = "timer" => reqState[lastStep.req] # "failed"

\* C20: the progress of a request in flight is advanced only by its own
\* timer, never by the timer of an earlier request.
C20_NoInterference ==
  [][(/\ pendingRequest # 0
      /\ lastStep'.kind = "timer"
      /\ progress' # progress) => lastStep'.req = pendingRequest]_vars

-----------------------------------------------------------------------------
(* Claims about the frame of validation and generation *)

\* C21: validateScenario called with scenario data issues no backend request
\* and its result does not depend on the backend: two such calls complete
\* alike whatever getScenarioById would have answered; getScenarioById is
\* requested by validateScenario only when it is called without data.
C21_DataBypassesFetch ==
  [][
    /\ (call'.op = "validateScenario(id, data)") =>
          /\ backendCalls' = {}
          /\ (call.op = "validateScenario(id, data)") => (outcome' = outcome)
    /\ (/\ call'.op \in {"validateScenario(id, data)", "validateScenario(id)"}
        /\ "getScenarioById" \in backendCalls') =>
          (call'.op = "validateScenario(id)")
  ]_vars

\* validateScenario has completed on supplied data while the backend would
\* have served the scenario
C21_Witness ==
  /\ call.op = "validateScenario(id, data)"
  /\ call.fetchOk
  /\ returned
  /\ backendCalls = {}

\* the generator call of the latest request has resolved: handleSubmit went
\* past its await
latestResolved ==
  /\ latestRequest # 0
  /\ reqState[latestRequest] \in {"completed", "errorResponse", "typeError"}

\* C22: progress is always a multiple of 10 between 0 and 100, and it is
\* above 90 only once the generator call of the latest request has resolved:
\* timer ticks alone, from however many live timers, never take it past 90.
C22_ProgressInRange ==
  /\ progress \in {10 * i : i \in 0..10}
  /\ progress > 90 => latestResolved

\* two timers have been live, the second request is still awaiting the
\* generator and its timer has stopped at 90
C22_Witness ==
  /\ Len(reqState) = 2
  /\ reqState[1] = "failed"
  /\ reqState[2] = "pending"
  /\ lastStep.kind = "timer"
  /\ progress = 90
  /\ 2 \notin timers

\* C23: every request releases the form once its generator call settles:
\* the step that settles it, by a result, an error response or an exception,
\* ends with isGenerating false, isGenerating is true only while a call is
\* pending, and no request is started while isGenerating is true.
C23_FormReleased ==
  [][
    /\ (pendingRequest # 0 /\ pendingRequest' # pendingRequest) => ~isGenerating'
    /\ isGenerating' => (pendingRequest' # 0)
    /\ isGenerating => (Len(reqState') = Len(reqState))
  ]_vars

\* reading the response raised inside the try block, and the form is released
C23_Witness ==
  /\ lastStep.kind = "resolve"
  /\ reqState[lastStep.req] = "typeError"
  /\ pendingRequest = 0
  /\ ~isGenerating

\* C24: result is written only by the step that handles a generator
\* response without an error; a request that fails by an exception or by an
\* error response, and the start of a request, leave result as it was.
C24_ResultOnlyFromSuccess ==
  [][(result' # result) =>
       /\ lastStep'.kind \in {"resolve", "mock"}
       /\ ~Truthy(lastStep'.message)
       /\ reqState'[lastStep'.req] = "completed"
       /\ result' \in Responses
       /\ ~Truthy(result'.error)]_vars

\* the result of the first request is still stored after the second failed
C24_Witness ==
  /\ Len(reqState) = 2
  /\ reqState[1] = "completed"
  /\ reqState[2] \in {"failed", "errorResponse"}
  /\ Truthy(result)

====
